---- MODULE Spec2Model ----
(***************************************************************************)
(* Model of the knowledge-graph viewers:                                   *)
(*   src/js/ar-graph.js     the AR / 3D viewer (three.js + WebXR)          *)
(*   src/unnamed/part_000   graph.js, the 3d-force-graph viewer            *)
(* Numbers with a fractional part in the source are kept in fixed point:   *)
(* a node's emissiveIntensity and scale in tenths (0.3 is 3, 1.5 is 15),   *)
(* the camera distance and the graph's scale in hundredths, the layout's   *)
(* lengths in thousandths.  A drag rotation is counted in pixels (0.01     *)
(* radian each); the frame loops' slow auto-rotation adds to rotation.y    *)
(* independently of every handler and is not followed.                     *)
(***************************************************************************)
EXTENDS Integers, Sequences, FiniteSets, TLC

(***************************************************************************)
(* Optional JSON fields: an absent field (undefined) is the empty          *)
(* sequence, a present one a sequence of length one.                       *)
(***************************************************************************)
None == <<>>

Some(x) == <<x>>

\* JavaScript truthiness of an optional string field: if (entity.properties.document_id)
Truthy(o) == o # None /\ o[1] # ""

\* a.properties.chunk_index || 0
OrZero(o) == IF o = None THEN 0 ELSE o[1]

(***************************************************************************)
(* Bounds of the input documents.                                          *)
(***************************************************************************)
MaxEntities == 3

\* Ids are unique within a load (spec, data model): the i-th entity's id.
IdOf(i) == IF i = 1 THEN "d1" ELSE "c" \o ToString(i - 1)

\* An id no entity carries.
DanglingId == "dX"

DocumentIds == {IdOf(1), DanglingId}

ChunkIndexes == {0, 1}

EntityTypes == {"Document", "Chunk"}

OptionalDocumentIds == {None} \cup {Some(x) : x \in DocumentIds}

OptionalChunkIndexes == {None} \cup {Some(x) : x \in ChunkIndexes}

\* The properties of an entity of the type: absent, or a mapping in which
\* document_id and (for a chunk) chunk_index are each present or not.
PropertySets(type) ==
    {None} \cup
    {Some([document_id |-> d, chunk_index |-> c]) :
        d \in OptionalDocumentIds,
        c \in IF type = "Chunk" THEN OptionalChunkIndexes ELSE {None}}

Entities(i) ==
    UNION {{[id |-> IdOf(i), type |-> t, properties |-> p] : p \in PropertySets(t)} :
           t \in EntityTypes}

\* The entity lists of at most max entities.
EntityLists(max) ==
    UNION {{[i \in 1..n |-> e[i]] :
                e \in {f \in [1..n -> UNION {Entities(i) : i \in 1..n}] :
                          \A i \in 1..n : f[i].id = IdOf(i)}} :
           n \in 0..max}

\* Relationships with and without a type, resolvable and with a dangling end.
Relationships ==
    {[source |-> IdOf(1), target |-> IdOf(2), type |-> Some("cites")],
     [source |-> IdOf(1), target |-> IdOf(2), type |-> None],
     [source |-> DanglingId, target |-> IdOf(2), type |-> None],
     [source |-> IdOf(1), target |-> DanglingId, type |-> Some("cites")]}

\* The relationship lists: empty, one relationship, or two in a given order.
RelationshipLists ==
    {<<>>} \cup {<<r>> : r \in Relationships}
    \cup {<< [source |-> DanglingId, target |-> IdOf(2), type |-> None],
              [source |-> IdOf(1), target |-> IdOf(2), type |-> Some("cites")] >>}

\* The parsed JSON documents: each array is present or absent.
Documents(max) ==
    [entities : {None} \cup {Some(l) : l \in EntityLists(max)},
     relationships : {None} \cup {Some(l) : l \in RelationshipLists}]

\* data.entities || []
EntitiesOf(data) == IF data.entities = None THEN <<>> ELSE data.entities[1]

\* data.relationships || []
RelationshipsOf(data) ==
    IF data.relationships = None THEN <<>> ELSE data.relationships[1]

\* The example of the spec's testable properties.
ExampleEntities ==
    << [id |-> "d1", type |-> "Document", properties |-> None],
       [id |-> "c1", type |-> "Chunk",
        properties |-> Some([document_id |-> Some("d1"), chunk_index |-> Some(0)])],
       [id |-> "c2", type |-> "Chunk",
        properties |-> Some([document_id |-> Some("d1"), chunk_index |-> Some(1)])] >>

(***************************************************************************)
(* graph.js: transformAndInitGraph                                         *)
(***************************************************************************)
\* entity.properties && entity.properties.document_id
HasDocumentId(entity) ==
    entity.properties # None /\ Truthy(entity.properties[1].document_id)

DocIdOf(entity) == entity.properties[1].document_id[1]

ChunkIndexOf(entity) == OrZero(entity.properties[1].chunk_index)

FgNodeColor(type) ==
    CASE type = "Document" -> "#ff6b6b"
      [] type = "Chunk" -> "#4ecdc4"
      [] OTHER -> "#45b7d1"

\* entities.map(entity => ({id, ..., color, val}))
FgNodes(entities) ==
    [i \in 1..Len(entities) |->
        [id |-> entities[i].id,
         type |-> entities[i].type,
         properties |-> entities[i].properties,
         color |-> FgNodeColor(entities[i].type),
         val |-> IF entities[i].type = "Document" THEN 8 ELSE 4]]

\* Faulty variant: an absent type is not defaulted.
FgRelationshipLinksNoDefault(relationships) ==
    [i \in 1..Len(relationships) |->
        [source |-> relationships[i].source,
         target |-> relationships[i].target,
         type |-> IF Truthy(relationships[i].type)
                  THEN relationships[i].type[1] ELSE "undefined"]]

\* relationships.map(rel => ({source, target, type: rel.type || 'connects'}))
FgRelationshipLinks(relationships) ==
    [i \in 1..Len(relationships) |->
        [source |-> relationships[i].source,
         target |-> relationships[i].target,
         type |-> IF Truthy(relationships[i].type)
                  THEN relationships[i].type[1] ELSE "connects"]]

RECURSIVE ContainsLinks(_)
\* Faulty variant: only chunks are linked to their document.
ContainsLinksChunksOnly(entities) ==
    LET chunks == SelectSeq(entities, LAMBDA e : e.type = "Chunk" /\ HasDocumentId(e))
    IN [i \in 1..Len(chunks) |->
           [source |-> DocIdOf(chunks[i]), target |-> chunks[i].id,
            type |-> "contains"]]

\* entities.forEach(entity => { if (has document_id) links.push({... 'contains'}) })
ContainsLinks(entities) ==
    IF entities = <<>> THEN <<>>
    ELSE LET entity == entities[Len(entities)]
             rest == ContainsLinks(SubSeq(entities, 1, Len(entities) - 1))
         IN IF HasDocumentId(entity)
            THEN Append(rest, [source |-> DocIdOf(entity),
                               target |-> entity.id,
                               type |-> "contains"])
            ELSE rest

\* The chunks that take part in the grouping, in entity order.
GroupedChunks(entities) ==
    SelectSeq(entities, LAMBDA e : e.type = "Chunk" /\ HasDocumentId(e))

RECURSIVE DocKeys(_)
\* The keys of chunksByDoc in insertion order (Object.values order).
DocKeys(chunks) ==
    IF chunks = <<>> THEN <<>>
    ELSE LET rest == DocKeys(SubSeq(chunks, 1, Len(chunks) - 1))
             d == DocIdOf(chunks[Len(chunks)])
         IN IF \E i \in 1..Len(rest) : rest[i] = d THEN rest ELSE Append(rest, d)

\* chunksByDoc[docId]: the chunks of one document, in entity order.
ChunksOfDoc(entities, docId) ==
    SelectSeq(GroupedChunks(entities), LAMBDA e : DocIdOf(e) = docId)

RECURSIVE InsertChunkAsc(_, _)
\* One step of the stable sort: e goes after every element not greater than it.
InsertChunkAsc(sorted, e) ==
    IF sorted = <<>> THEN <<e>>
    ELSE IF ChunkIndexOf(sorted[Len(sorted)]) - ChunkIndexOf(e) <= 0
         THEN Append(sorted, e)
         ELSE Append(InsertChunkAsc(SubSeq(sorted, 1, Len(sorted) - 1), e),
                     sorted[Len(sorted)])

RECURSIVE SortChunks(_)
\* Faulty variant: the chunks are chained in entity order, unsorted.
SortChunksUnsorted(chunks) == chunks

\* chunks.sort((a, b) => indexA - indexB): Array.prototype.sort is stable.
SortChunks(chunks) ==
    IF chunks = <<>> THEN <<>>
    ELSE InsertChunkAsc(SortChunks(SubSeq(chunks, 1, Len(chunks) - 1)),
                        chunks[Len(chunks)])

\* for (i = 0; i < chunks.length - 1; i++) links.push({chunks[i] -> chunks[i+1], 'next'})
ChainLinks(chunks) ==
    [i \in 1..(IF Len(chunks) = 0 THEN 0 ELSE Len(chunks) - 1) |->
        [source |-> chunks[i].id, target |-> chunks[i + 1].id, type |-> "next"]]

RECURSIVE NextLinksOver(_, _)
NextLinksOver(entities, keys) ==
    IF keys = <<>> THEN <<>>
    ELSE NextLinksOver(entities, SubSeq(keys, 1, Len(keys) - 1))
         \o ChainLinks(SortChunks(ChunksOfDoc(entities, keys[Len(keys)])))

\* Object.values(chunksByDoc).forEach(chunks => { sort; chain })
NextLinks(entities) == NextLinksOver(entities, DocKeys(GroupedChunks(entities)))

\* Faulty variant: the 'next' links are pushed before the 'contains' links.
FgLinksNextFirst(document) ==
    IF Len(RelationshipsOf(document)) > 0
    THEN FgRelationshipLinks(RelationshipsOf(document))
    ELSE NextLinks(EntitiesOf(document)) \o ContainsLinks(EntitiesOf(document))

\* The link list of transformAndInitGraph.
FgLinks(document) ==
    IF Len(RelationshipsOf(document)) > 0
    THEN FgRelationshipLinks(RelationshipsOf(document))
    ELSE ContainsLinks(EntitiesOf(document)) \o NextLinks(EntitiesOf(document))


(***************************************************************************)
(* ar-graph.js: createGraph                                                *)
(***************************************************************************)
BaselineEmissive == 3

BaselineScale == 10

HighlightEmissive == 8

HighlightScale == 15

\* selectedNode = null; a selected node is its index in nodes.
NoNode == 0

\* const radius = currentMode === 'ar' ? 0.15 : 15, in thousandths
BaseRadius(mode) == IF mode = "ar" THEN 150 ELSE 15000

\* The sphere's position, for the 0-based index of n entities and the value
\* rnd (in tenths) that Math.random() returned.  x = cos(angle) * r and
\* z = sin(angle) * r are kept in polar form: the angle is index/n of a full
\* turn, r = radius * (1 + tier * 0.3) with tier = floor(index / 6);
\* y = (rnd - 0.5) * radius * 0.5.  Lengths are rounded down to a thousandth.
Position(index, n, mode, rnd) ==
    [turn |-> <<index, n>>,
     r |-> (BaseRadius(mode) * (10 + 3 * (index \div 6))) \div 10,
     y |-> ((rnd - 5) * BaseRadius(mode)) \div 20]

\* const nodeColors
DocumentColor == 16739179
ChunkColor == 5164484
DefaultColor == 4569041

\* node.material.color.setHex(0xffffff)
White == 16777215

\* nodeColors[type] || nodeColors.default
NodeColorOf(type) ==
    IF type = "Document" THEN DocumentColor
    ELSE IF type = "Chunk" THEN ChunkColor
    ELSE DefaultColor

\* new THREE.MeshPhongMaterial({ color: color, ... }) for each entity.
CreateColors(entities) == [i \in 1..Len(entities) |-> NodeColorOf(entities[i].type)]

\* One sphere per entity: material.emissiveIntensity 0.3, scale (1, 1, 1).
CreateNodes(entities, mode, rnd) ==
    [i \in 1..Len(entities) |->
        [userData |-> entities[i],
         position |-> Position(i - 1, Len(entities), mode, rnd[i]),
         emissiveIntensity |-> BaselineEmissive,
         scale |-> BaselineScale]]

RECURSIVE ArContainsLinks(_)
\* Auto-create links: {source: document_id, target: id} (no type).
ArContainsLinks(entities) ==
    IF entities = <<>> THEN <<>>
    ELSE LET entity == entities[Len(entities)]
             rest == ArContainsLinks(SubSeq(entities, 1, Len(entities) - 1))
         IN IF HasDocumentId(entity)
            THEN Append(rest, [source |-> DocIdOf(entity), target |-> entity.id])
            ELSE rest

\* links = relationships when there are any, else the auto-created ones.
CreateLinks(document) ==
    IF Len(RelationshipsOf(document)) > 0
    THEN [i \in 1..Len(RelationshipsOf(document)) |->
             [source |-> RelationshipsOf(document)[i].source,
              target |-> RelationshipsOf(document)[i].target]]
    ELSE ArContainsLinks(EntitiesOf(document))

\* nodeMap.get(id) is defined: some entity carries the id.
InNodeMap(entities, id) == \E i \in 1..Len(entities) : entities[i].id = id

\* Faulty variant: a line is drawn for every link.
CreateEdgesUnfiltered(document) == CreateLinks(document)

\* links.forEach: a line for each link whose source and target are in nodeMap.
CreateEdges(document) ==
    SelectSeq(CreateLinks(document),
              LAMBDA rel : InNodeMap(EntitiesOf(document), rel.source)
                           /\ InNodeMap(EntitiesOf(document), rel.target))


(***************************************************************************)
(* State.  A page runs one of the two scripts.                             *)
(***************************************************************************)
VARIABLES
    page,                   \* "ar-graph" (ar-graph.js) or "graph" (graph.js)
    json,                   \* the document the pending fetch delivers
    tracked,                \* which history the behaviour records
    arSupport,              \* the browser: "supported", "unsupported" (navigator.xr
                            \* without immersive-ar) or "unavailable" (no navigator.xr)
    arSupportMsg,           \* #ar-support-msg innerHTML
    loads,                  \* the loadGraphData calls: in flight, and their history
    previous,               \* the mode and node positions when the page was last
                            \* left by exitMode (history)
    loadingScreen,          \* #loading-screen: "loading", "hidden", "error", or
                            \* "error-hidden" (the error text, not displayed)
    nodeInfo,               \* #node-info innerHTML
    nodeCount,              \* #node-count textContent
    linkCount,              \* #link-count textContent
    lastError,              \* the last event ended in an uncaught exception (history)
    \* ar-graph.js
    graphData,              \* None (null) or Some(document)
    currentMode,            \* "null", "3d" or "ar"
    nodes,                  \* the node meshes, in entity order
    edges,                  \* the lines built by createGraph
    selectedNode,           \* NoNode or an index of nodes
    graphVisible,           \* graphGroup.visible
    reticleVisible,         \* reticle.visible
    hitTestSourceRequested,
    hitTestSource,          \* the session whose hit-test source is held, or NoSource
    session,                \* renderer.xr.getSession(): the session running, or NoSession
    sessionCount,           \* sessions started on the page so far
    pendingSource,          \* sessions whose hit-test source request is pending
    reticleMatrix,          \* reticle.matrix: the pose of the last hit shown
    graphPosition,          \* graphGroup.position
    placements,             \* times onARSelect has placed the graph (history)
    isDragging,             \* setup3DControls' closure variable
    touching,               \* the fingers on the canvas (e.touches)
    under,                  \* the node a raycast at each finger's point hits
    moved,                  \* cumulative movement of the touch sequence, saturated
    sinceLastTap,           \* new Date().getTime() - lastTap, in ms, saturated
    cameraZ,                \* camera.position.z, in hundredths
    rotation,               \* graphGroup.rotation [x, y]: the sum of the drags, in
                            \* hundredths of a radian (one pixel of movement)
    graphScale,             \* graphGroup.scale, in hundredths
    initialPinchDistance,   \* setup3DControls' closure variable
    initialScale,           \* setup3DControls' closure variable, in hundredths
    \* graph.js
    fgGraph,                \* Graph is defined (initGraph ran)
    fgGraphData,            \* graphData = {nodes, links}
    fgScale,                \* node.__threeObj.scale of each node
    \* history, for the properties only
    selectHistory,          \* the arguments of the last two node selections
    lastOp,                 \* the last operation on the selection
    lastEvent,              \* the last input event and what it called
    gesture,                \* the touch sequence in progress or just ended
    mouseGesture,           \* the mouse press in progress or just ended
    nodeColor,              \* material.color of each node mesh, in entity order
    flashTimers             \* the pending 300 ms timers of onNodeSelect, first due first

pageVars == <<page, json, tracked, arSupport, arSupportMsg, loads, previous>>

domVars == <<loadingScreen, nodeInfo, nodeCount, linkCount, lastError>>

sceneVars == <<graphData, currentMode, nodes, edges, graphVisible>>

xrVars == <<reticleVisible, hitTestSourceRequested, hitTestSource, session,
            sessionCount, pendingSource, reticleMatrix, graphPosition, placements>>

touchVars == <<isDragging, touching, under, moved, sinceLastTap>>

viewVars == <<cameraZ, rotation, graphScale>>

controlVars == <<initialPinchDistance, initialScale>>

fgVars == <<fgGraph, fgGraphData, fgScale>>

flashVars == <<nodeColor, flashTimers>>

\* The histories, and the flash state that only the selecting handlers write.
historyVars == <<selectHistory, lastOp, lastEvent, gesture, mouseGesture, flashVars>>

vars == <<pageVars, domVars, sceneVars, selectedNode, xrVars, touchVars,
          viewVars, controlVars, fgVars, historyVars>>

(***************************************************************************)
(* Bounds of the interactive model.                                        *)
(***************************************************************************)
NumNodes == 2

MaxFingers == 2

Fingers == 1..MaxFingers

\* A document and its chunks, n entities in all.
DocumentOf(n) ==
    [entities |->
        Some([i \in 1..n |->
            IF i = 1 THEN [id |-> IdOf(1), type |-> "Document", properties |-> None]
            ELSE [id |-> IdOf(i), type |-> "Chunk",
                  properties |-> Some([document_id |-> Some(IdOf(1)),
                                       chunk_index |-> Some(i - 2)])]]),
     relationships |-> Some(<<>>)]

\* The document the viewers display.
ViewerDocument == DocumentOf(NumNodes)

\* The viewers' document with one more entity, of a type nodeColors does not list.
FlashDocument ==
    [entities |->
        Some(Append(ViewerDocument.entities[1],
                    [id |-> "p1", type |-> "Person", properties |-> None])),
     relationships |-> Some(<<>>)]

\* Most flash timers pending at a time.
MaxTimers == 3

\* Entities of the document whose layout is followed: enough for a second tier.
LayoutSize == 7

LayoutDocument == DocumentOf(LayoutSize)

\* What Math.random() returns, in tenths, in the behaviours that follow the
\* layout; elsewhere the middle value.
Randoms == IF tracked = "layout" THEN {0, 9} ELSE {5}

\* setupMobileEvents: tapLength < 500
DoubleTapMs == 500

\* Most XR sessions started on a page; a session is its number.
MaxSessions == 2

Sessions == 1..MaxSessions

\* renderer.xr.getSession() outside a session
NoSession == 0

\* let hitTestSource = null
NoSource == 0

\* The values of now - lastTap the model tells apart.
TapGaps == {0, 250, DoubleTapMs}

\* The movement threshold of the spec's tap classification, in touchmove events
\* (no counterpart in the code).
MoveThreshold == 1

\* phase: "none", "active" (a finger is down) or "done" (the last finger lifted);
\* initHit: the node under the initial contact point; moved: the movement so far;
\* maxTouches: the most contact points active at once; selectCalled, selectArg:
\* onNodeSelect was invoked by an event of the sequence, and with which node;
\* changed: an event of the sequence changed selectedNode.
\* Of the touchend events so far: ends, their number (saturated at 2); endedTap,
\* the last one ended a sequence with one contact point; prevEndedTap, so did the
\* one before it; reset, the last one made setupMobileEvents call resetView.
NoGesture ==
    [phase |-> "none", initHit |-> NoNode, moved |-> 0, maxTouches |-> 0,
     selectCalled |-> FALSE, selectArg |-> NoNode, changed |-> FALSE,
     ends |-> 0, endedTap |-> FALSE, prevEndedTap |-> FALSE, reset |-> FALSE]

\* hitTest, hit: a listener of the event cast a ray, and the node it hit;
\* doubleTap: the event is a touchend that completes a double tap.
NoEvent == [hitTest |-> FALSE, hit |-> NoNode, doubleTap |-> FALSE]

\* pressed: "none", "down" or "released"; moved: the mouse moved while the button
\* was down; rotated: the press changed graphGroup.rotation; selectCalled: the
\* release invoked onNodeSelect.
NoMouseGesture ==
    [pressed |-> "none", moved |-> FALSE, rotated |-> FALSE, selectCalled |-> FALSE]

(***************************************************************************)
(* ar-graph.js: the view transform.  Lengths are in hundredths: the wheel  *)
(* listener's deltaY * 0.01 is deltaY hundredths.  Products are rounded    *)
(* down to a hundredth.                                                    *)
(***************************************************************************)
\* camera.position.z = 30
CameraStart == 3000

\* Math.max(5, Math.min(100, camera.position.z))
MinCamera == 500

MaxCamera == 10000

\* zoomIn / zoomOut: camera.position.z -/+ 3
ZoomStep == 300

\* graphGroup.scale.set(1, 1, 1)
UnitScale == 100

\* const minScale = 0.1; const maxScale = 5
MinScale == 10

MaxScale == 500

\* Math.max(lo, Math.min(hi, x))
Clamp(lo, hi, x) ==
    LET least == IF hi < x THEN hi ELSE x
    IN IF lo > least THEN lo ELSE least

\* e.deltaY of the wheel events: a notch and a fling, in either direction.
WheelDeltas == {-20000, -700, 700, 20000}

\* new THREE.Mesh / new THREE.Group: the identity matrix, the position (0, 0, 0).
Origin == 0

\* The positions of the hit poses, in the behaviours that follow the placement;
\* elsewhere every surface hit is at the origin.
Poses == IF tracked = "placement" THEN {1, 2} ELSE {Origin}

\* Largest number of placements counted.
MaxPlacements == 2

\* The distances between two fingers, in the behaviours that follow the view;
\* elsewhere the fingers keep their distance.
PinchDistances == IF tracked = "view" THEN {0, 1, 2} ELSE {1}

\* Largest drag rotation followed, per axis.
MaxRotation == 2

\* The movement [x, y] of the pointer between two move events, in pixels, in the
\* behaviours that follow the mouse; elsewhere the pointer stays where it is.
DragDeltas ==
    IF tracked = "mouse" THEN {[x |-> 1, y |-> 0], [x |-> -1, y |-> 1]}
    ELSE {[x |-> 0, y |-> 0]}

NoRotation == [x |-> 0, y |-> 0]

\* graphGroup.rotation.y += deltaX * 0.01; graphGroup.rotation.x += deltaY * 0.01
Rotate(r, delta) == [x |-> r.x + delta.y, y |-> r.y + delta.x]

\* The rotation stays within the range the model follows.
InRange(r) ==
    /\ r.x \in -MaxRotation..MaxRotation
    /\ r.y \in -MaxRotation..MaxRotation

\* Faulty variant: the pinch without its limits.
PinchScaleUnlimited(scale, start, distance) == (scale * distance) \div start

\* The 3D pinch: initialScale * (distance / initialPinchDistance), limited.
PinchScale(scale, start, distance) ==
    Clamp(MinScale, MaxScale, (scale * distance) \div start)

\* Faulty variant: the wheel listener without its limits.
WheelZUnlimited(z, deltaY) == z + deltaY

\* camera.position.z += e.deltaY * 0.01, then limited to [5, 100]
WheelZ(z, deltaY) == Clamp(MinCamera, MaxCamera, z + deltaY)

\* zoomIn, 3D: Math.max(5, camera.position.z - 3)
ZoomInZ(z) == IF z - ZoomStep < MinCamera THEN MinCamera ELSE z - ZoomStep

\* zoomOut, 3D: Math.min(100, camera.position.z + 3)
ZoomOutZ(z) == IF z + ZoomStep > MaxCamera THEN MaxCamera ELSE z + ZoomStep

\* zoomIn, AR: the scale times 1.2, limited to [0.1, 5]
ZoomInScale(scale) == Clamp(MinScale, MaxScale, (scale * 12) \div 10)

\* zoomOut, AR: the scale times 0.8, limited to [0.1, 5]
ZoomOutScale(scale) == Clamp(MinScale, MaxScale, (scale * 8) \div 10)

(***************************************************************************)
(* ar-graph.js: selection                                                  *)
(***************************************************************************)
\* displayNodeInfo(data): the panel shows the details rendered from data.
DisplayNodeInfo(data) == <<"details", data>>

\* 'Tap on a node to see details' / 'Click on a node to see details'; the page is
\* taken to show the same text before the first selection.
Placeholder == <<"placeholder">>

\* The part of the state the selection and view handlers read and write.
View ==
    [selectedNode |-> selectedNode, nodes |-> nodes, nodeInfo |-> nodeInfo,
     cameraZ |-> cameraZ, rotation |-> rotation, graphScale |-> graphScale]

Revert(meshes, n) ==
    [meshes EXCEPT ![n].emissiveIntensity = BaselineEmissive,
                   ![n].scale = BaselineScale]

\* Faulty variant: the colour to restore is read from the material.
OriginalColorFromMaterial(colors, node) == colors[node]

\* const originalColor = nodeColors[node.userData.type] || nodeColors.default
OriginalColor(colors, node) == NodeColorOf(nodes[node].userData.type)

\* Faulty variant: selecting the selected node deselects it.
OnNodeSelectToggle(v, node) ==
    IF v.selectedNode = node
    THEN [v EXCEPT !.selectedNode = NoNode,
                   !.nodes = Revert(v.nodes, node),
                   !.nodeInfo = Placeholder]
    ELSE LET deselected == IF v.selectedNode # NoNode
                           THEN Revert(v.nodes, v.selectedNode)
                           ELSE v.nodes
             selected == [deselected EXCEPT
                             ![node].emissiveIntensity = HighlightEmissive,
                             ![node].scale = HighlightScale]
         IN [v EXCEPT !.selectedNode = node,
                      !.nodes = selected,
                      !.nodeInfo = DisplayNodeInfo(selected[node].userData)]

\* Faulty variant: the previous node is not deselected.
OnNodeSelectNoDeselect(v, node) ==
    LET selected == [v.nodes EXCEPT ![node].emissiveIntensity = HighlightEmissive,
                                    ![node].scale = HighlightScale]
    IN [v EXCEPT !.selectedNode = node,
                 !.nodes = selected,
                 !.nodeInfo = DisplayNodeInfo(selected[node].userData)]

\* function onNodeSelect(node)
OnNodeSelect(v, node) ==
    LET deselected == IF v.selectedNode # NoNode
                      THEN Revert(v.nodes, v.selectedNode)
                      ELSE v.nodes
        selected == [deselected EXCEPT ![node].emissiveIntensity = HighlightEmissive,
                                       ![node].scale = HighlightScale]
    IN [v EXCEPT !.selectedNode = node,
                 !.nodes = selected,
                 !.nodeInfo = DisplayNodeInfo(selected[node].userData)]

\* Faulty variant: only the info panel is reset.
ResetViewKeepsSelection(v) == [v EXCEPT !.nodeInfo = Placeholder]

\* Faulty variant: the reset clears the selection and leaves the panel as it is.
ResetViewKeepsPanel(v) ==
    [selectedNode |-> NoNode,
     nodes |-> IF v.selectedNode # NoNode THEN Revert(v.nodes, v.selectedNode)
               ELSE v.nodes,
     nodeInfo |-> v.nodeInfo,
     cameraZ |-> IF currentMode = "3d" THEN CameraStart ELSE v.cameraZ,
     rotation |-> IF currentMode = "3d" THEN NoRotation ELSE v.rotation,
     graphScale |-> IF currentMode \in {"3d", "ar"} THEN UnitScale ELSE v.graphScale]

\* window.resetView
ResetView(v) ==
    [selectedNode |-> NoNode,
     nodes |-> IF v.selectedNode # NoNode THEN Revert(v.nodes, v.selectedNode)
               ELSE v.nodes,
     nodeInfo |-> Placeholder,
     cameraZ |-> IF currentMode = "3d" THEN CameraStart ELSE v.cameraZ,
     rotation |-> IF currentMode = "3d" THEN NoRotation ELSE v.rotation,
     graphScale |-> IF currentMode \in {"3d", "ar"} THEN UnitScale ELSE v.graphScale]

SelectCall(node) == [op |-> "select", node |-> node]

ResetCall == [op |-> "reset", node |-> NoNode]

RECURSIVE Run(_, _)
\* The calls an event's listeners make, applied in order.
Run(v, calls) ==
    IF calls = <<>> THEN v
    ELSE LET before == Run(v, SubSeq(calls, 1, Len(calls) - 1))
             call == calls[Len(calls)]
         IN IF call.op = "select" THEN OnNodeSelect(before, call.node)
            ELSE ResetView(before)

RECURSIVE HistoryAfter(_, _)
HistoryAfter(h, calls) ==
    IF calls = <<>> THEN h
    ELSE LET before == HistoryAfter(h, SubSeq(calls, 1, Len(calls) - 1))
             call == calls[Len(calls)]
         IN IF call.op = "select" THEN <<call.node, before[1]>> ELSE before

\* The selection history, recorded in the behaviours that track it; those that
\* follow the view record the last operation alone.
RecordSelection(history, op) ==
    IF tracked = "selection"
    THEN selectHistory' = history /\ lastOp' = op
    ELSE IF tracked = "view"
    THEN lastOp' = op /\ UNCHANGED selectHistory
    ELSE UNCHANGED <<selectHistory, lastOp>>

\* The last event and whether it threw, recorded in the behaviours that track it.
RecordEvent(event, threw) ==
    IF tracked = "event"
    THEN lastEvent' = event /\ lastError' = threw
    ELSE UNCHANGED <<lastEvent, lastError>>

\* The touch sequence, recorded in the behaviours that track it.
RecordGesture(g) == gesture' = IF tracked = "gesture" THEN g ELSE gesture

RECURSIVE FlashAfter(_, _)
\* onNodeSelect's visual feedback, for each onNodeSelect among the calls: the
\* colour to restore is taken, the material turns white, a timer is set.
FlashAfter(f, calls) ==
    IF calls = <<>> THEN f
    ELSE LET call == Head(calls)
             g == IF call.op = "select"
                  THEN [colors |-> [f.colors EXCEPT ![call.node] = White],
                        timers |-> Append(f.timers,
                                          [node |-> call.node,
                                           color |-> OriginalColor(f.colors, call.node)])]
                  ELSE f
         IN FlashAfter(g, Tail(calls))

\* The material colours and timers after the calls, in the behaviours that
\* follow the flash; elsewhere the material colour is not followed.
Flash(calls) ==
    IF tracked = "flash"
    THEN LET f == FlashAfter([colors |-> nodeColor, timers |-> flashTimers], calls)
         IN nodeColor' = f.colors /\ flashTimers' = f.timers
    ELSE UNCHANGED flashVars

\* setTimeout(() => { node.material.color.setHex(originalColor); }, 300): the
\* timer due first fires.
FlashTimerFires ==
    /\ page = "ar-graph"
    /\ flashTimers # <<>>
    /\ nodeColor' = [nodeColor EXCEPT ![Head(flashTimers).node] = Head(flashTimers).color]
    /\ flashTimers' = Tail(flashTimers)
    /\ UNCHANGED <<pageVars, domVars, sceneVars, selectedNode, xrVars, touchVars,
                   viewVars, controlVars, fgVars, selectHistory, lastOp, lastEvent,
                   gesture, mouseGesture>>

\* The state after an event whose listeners wrote `view` and made these calls.
DispatchFrom(view, hitTest, hit, doubleTap, calls, threw) ==
    LET v == Run(view, calls)
    IN /\ selectedNode' = v.selectedNode
       /\ nodes' = v.nodes
       /\ nodeInfo' = v.nodeInfo
       /\ cameraZ' = v.cameraZ
       /\ rotation' = v.rotation
       /\ graphScale' = v.graphScale
       /\ RecordSelection(HistoryAfter(selectHistory, calls),
                          IF calls # <<>> THEN calls[Len(calls)].op
                          ELSE IF view # View THEN "view" ELSE lastOp)
       /\ RecordEvent([hitTest |-> hitTest, hit |-> hit, doubleTap |-> doubleTap],
                      threw)
       /\ Flash(calls)

\* The state after an event whose listeners made these calls.
Dispatch(hitTest, hit, doubleTap, calls, threw) ==
    DispatchFrom(View, hitTest, hit, doubleTap, calls, threw)

\* What a raycast can return: nothing, or a node of the displayed graph; in the
\* behaviours that follow the placement, a node of the graph not yet shown too
\* (Raycaster.intersectObjects does not look at visible).
Hits == IF graphVisible \/ tracked = "placement" THEN 0..Len(nodes) ELSE {NoNode}


(***************************************************************************)
(* ar-graph.js: loading and mode entry                                     *)
(***************************************************************************)
\* The window's load listener has called loadGraphData once.
FirstLoad ==
    [inFlight |-> 1, started |-> 1, reloads |-> 0, inits |-> 0,
     overlapped |-> FALSE, last |-> None, lastFailed |-> FALSE]

\* A loadGraphData call ends: with the document it initialised from, or failed.
Resolved(l, data, initialised) ==
    [l EXCEPT !.inFlight = @ - 1,
              !.inits = IF initialised THEN @ + 1 ELSE @,
              !.last = Some(data),
              !.lastFailed = FALSE]

Failed(l) == [l EXCEPT !.inFlight = @ - 1, !.lastFailed = TRUE]

\* What the browser offers, in the behaviours that follow the start of a mode;
\* elsewhere a browser that supports immersive-ar.
ARSupports ==
    IF tracked = "start" THEN {"supported", "unsupported", "unavailable"}
    ELSE {"supported"}

\* checkARSupport up to its await: without navigator.xr the message is written
\* at once, otherwise the page's text stays until isSessionSupported resolves.
SupportMsgAtLoad(support) ==
    IF support = "unavailable" THEN "webxr-not-available" ELSE "checking"

\* checkARSupport after its await: isSessionSupported('immersive-ar') resolved.
CheckARSupport ==
    /\ page = "ar-graph"
    /\ arSupport # "unavailable"
    /\ arSupportMsg = "checking"
    /\ arSupportMsg' = IF arSupport = "supported" THEN "ar-supported"
                       ELSE "ar-not-supported"
    /\ UNCHANGED <<page, json, tracked, arSupport, loads, previous, domVars, sceneVars,
                   selectedNode, xrVars, touchVars, viewVars, controlVars, fgVars,
                   historyVars>>

\* #loading-screen after style.display = 'none'
Hide(screen) == IF screen \in {"error", "error-hidden"} THEN "error-hidden" ELSE "hidden"

\* #loading-screen after innerHTML = the error message with its Retry button
ShowError(screen) ==
    IF screen \in {"hidden", "error-hidden"} THEN "error-hidden" ELSE "error"

\* #loading-screen after style.display = 'flex'
Show(screen) == IF screen \in {"error", "error-hidden"} THEN "error" ELSE "loading"

\* loadGraphData: the fetch and response.json() succeed.
FetchResolve ==
    /\ page = "ar-graph"
    /\ loads.inFlight > 0
    /\ graphData' = Some(json)
    /\ loadingScreen' = Hide(loadingScreen)
    /\ loads' = Resolved(loads, json, FALSE)
    /\ UNCHANGED <<page, json, tracked, arSupport, arSupportMsg, previous, nodeInfo,
                   nodeCount, linkCount, lastError,
                   currentMode, nodes, edges, graphVisible, selectedNode,
                   xrVars, touchVars, viewVars, controlVars, fgVars, historyVars>>

\* loadGraphData: the catch branch.
FetchFail ==
    /\ page = "ar-graph"
    /\ loads.inFlight > 0
    /\ loadingScreen' = ShowError(loadingScreen)
    /\ loads' = Failed(loads)
    /\ UNCHANGED <<page, json, tracked, arSupport, arSupportMsg, previous, nodeInfo,
                   nodeCount, linkCount, lastError,
                   sceneVars, selectedNode, xrVars, touchVars, viewVars, controlVars,
                   fgVars, historyVars>>

\* createGraph, called by init3DScene and initARScene.
CreateGraph(document, mode) ==
    /\ \E rnd \in [1..Len(EntitiesOf(document)) -> Randoms] :
          nodes' = CreateNodes(EntitiesOf(document), mode, rnd)
    /\ edges' = CreateEdges(document)
    /\ nodeCount' = Len(EntitiesOf(document))
    /\ linkCount' = Len(CreateLinks(document))
    /\ nodeColor' = IF tracked = "flash" THEN CreateColors(EntitiesOf(document))
                    ELSE nodeColor

\* Faulty variant: start3DMode without its test of graphData: currentMode is set
\* and init3DScene runs until createGraph reads graphData.entities.
Start3DModeUnguarded ==
    /\ page = "ar-graph"
    /\ currentMode = "null"
    /\ currentMode' = "3d"
    /\ graphVisible' = TRUE
    /\ cameraZ' = CameraStart
    /\ rotation' = NoRotation
    /\ graphScale' = UnitScale
    /\ IF graphData = None
       THEN UNCHANGED <<nodes, edges, nodeCount, linkCount, nodeColor>>
       ELSE CreateGraph(graphData[1], currentMode')
    /\ UNCHANGED <<pageVars, loadingScreen, nodeInfo, lastError, graphData,
                   selectedNode, xrVars, touchVars, controlVars, fgVars, selectHistory,
                   lastOp, lastEvent, gesture, mouseGesture, flashTimers>>

\* window.start3DMode; the mode selector is hidden once a mode has started.
Start3DMode ==
    /\ page = "ar-graph"
    /\ currentMode = "null"
    /\ IF graphData = None
       THEN UNCHANGED <<currentMode, nodes, edges, nodeCount, linkCount, graphVisible,
                        viewVars, nodeColor>>
       ELSE /\ currentMode' = "3d"
            /\ graphVisible' = TRUE
            /\ cameraZ' = CameraStart
            /\ rotation' = NoRotation
            /\ graphScale' = UnitScale
            /\ CreateGraph(graphData[1], currentMode')
    /\ UNCHANGED <<pageVars, loadingScreen, nodeInfo, lastError, graphData,
                   selectedNode, xrVars, touchVars, controlVars, fgVars, selectHistory,
                   lastOp, lastEvent, gesture, mouseGesture, flashTimers>>

\* window.startARMode
StartARMode ==
    /\ page = "ar-graph"
    /\ currentMode = "null"
    /\ IF graphData = None
       THEN UNCHANGED <<currentMode, nodes, edges, nodeCount, linkCount, graphVisible,
                        viewVars, nodeColor>>
       ELSE /\ currentMode' = "ar"
            /\ graphVisible' = FALSE
            /\ cameraZ' = cameraZ
            /\ rotation' = NoRotation
            /\ graphScale' = UnitScale
            /\ CreateGraph(graphData[1], currentMode')
    /\ UNCHANGED <<pageVars, loadingScreen, nodeInfo, lastError, graphData,
                   selectedNode, xrVars, touchVars, controlVars, fgVars, selectHistory,
                   lastOp, lastEvent, gesture, mouseGesture, flashTimers>>

(***************************************************************************)
(* ar-graph.js: input events                                               *)
(***************************************************************************)
unchangedByEvent ==
    UNCHANGED <<pageVars, loadingScreen, nodeCount, linkCount, graphData,
                currentMode, edges, fgVars, mouseGesture>>

\* Faulty variant: a ray that hits nothing clears the selection.
SelectIfHitElseReset(hit) ==
    IF hit # NoNode THEN <<SelectCall(hit)>> ELSE <<ResetCall>>

\* if (intersects.length > 0) onNodeSelect(intersects[0].object)
SelectIfHit(hit) == IF hit # NoNode THEN <<SelectCall(hit)>> ELSE <<>>

\* An event of the touch sequence changes selectedNode.
ChangesSelection(calls) == Run(View, calls).selectedNode # selectedNode

\* setup3DControls: the click listener.
Click(hit) ==
    /\ page = "ar-graph"
    /\ currentMode = "3d"
    /\ Dispatch(TRUE, hit, FALSE, SelectIfHit(hit), FALSE)
    /\ unchangedByEvent
    /\ UNCHANGED <<graphVisible, xrVars, touchVars, controlVars, gesture>>

\* Faulty variant: handleTouchStart hit-tests the nodes of a graph not yet placed.
TouchStartCallsBeforePlacement(F, u) ==
    IF currentMode = "ar" /\ Cardinality(touching \cup F) = 1
    THEN SelectIfHit(u[CHOOSE f \in F : TRUE])
    ELSE <<>>

\* handleTouchStart (AR) / setup3DControls' touchstart listener (3D):
\* the fingers of F land, each on the point given by u.
TouchStartCalls(F, u) ==
    IF currentMode = "ar" /\ Cardinality(touching \cup F) = 1 /\ graphVisible
    THEN SelectIfHit(u[CHOOSE f \in F : TRUE])
    ELSE <<>>

\* renderer.domElement.userData is undefined: line 340 throws a TypeError.
TouchStartThrows(F) == currentMode = "ar" /\ Cardinality(touching \cup F) = 2

\* setup3DControls' touchstart listener, e.touches.length === 2: the pinch
\* starts at the fingers' distance, from the graph's present scale.
PinchStarts(F) == currentMode = "3d" /\ Cardinality(touching \cup F) = 2

TouchStart(F, u, distance) ==
    /\ page = "ar-graph"
    /\ currentMode # "null"
    /\ F # {}
    /\ F \cap touching = {}
    \* a new contact point takes the lowest free identifier
    /\ \A f \in F : \A g \in Fingers \ touching : g < f => g \in F
    /\ LET calls == TouchStartCalls(F, u)
           hitTest == currentMode = "ar" /\ Cardinality(touching \cup F) = 1
                      /\ graphVisible
           first == u[CHOOSE f \in F : TRUE]
       IN /\ Dispatch(hitTest, IF hitTest THEN first ELSE NoNode,
                      FALSE, calls, TouchStartThrows(F))
          /\ RecordGesture(
               IF touching = {}
               THEN [gesture EXCEPT
                        !.phase = "active",
                        !.initHit = IF Cardinality(F) = 1 THEN first ELSE NoNode,
                        !.moved = 0,
                        !.maxTouches = Cardinality(F),
                        !.selectCalled = calls # <<>>,
                        !.selectArg = IF calls # <<>> THEN calls[1].node ELSE NoNode,
                        !.changed = ChangesSelection(calls)]
               ELSE [gesture EXCEPT
                        !.maxTouches = IF Cardinality(touching \cup F) > @
                                       THEN Cardinality(touching \cup F) ELSE @,
                        !.selectCalled = @ \/ calls # <<>>,
                        !.selectArg = IF calls # <<>> THEN calls[1].node ELSE @,
                        !.changed = @ \/ ChangesSelection(calls)])
    /\ touching' = touching \cup F
    /\ moved' = IF touching = {} THEN 0 ELSE moved
    /\ under' = [f \in Fingers |-> IF f \in F THEN u[f] ELSE under[f]]
    /\ isDragging' = IF currentMode = "3d" /\ Cardinality(touching \cup F) = 1
                     THEN TRUE ELSE isDragging
    /\ initialPinchDistance' = IF PinchStarts(F) THEN distance ELSE initialPinchDistance
    /\ initialScale' = IF PinchStarts(F) THEN graphScale ELSE initialScale
    /\ unchangedByEvent
    /\ UNCHANGED <<graphVisible, xrVars, sinceLastTap>>

\* renderer.domElement.userData is undefined: line 374 throws a TypeError.
TouchMoveThrows == currentMode = "ar" /\ Cardinality(touching) = 2 /\ graphVisible

\* handleTouchMove / setup3DControls' touchmove listener: finger f moves to a
\* point where a raycast hits `hit`.  Neither listener touches the selection.
\* setup3DControls' touchmove listener: two touches pinch (unless the start
\* distance is 0, which is falsy), one touch of a drag orbits.
TouchMoveView(distance, delta) ==
    IF currentMode = "3d" /\ Cardinality(touching) = 2 /\ initialPinchDistance # 0
    THEN [View EXCEPT !.graphScale = PinchScale(initialScale, initialPinchDistance,
                                                distance)]
    ELSE IF currentMode = "3d" /\ Cardinality(touching) = 1 /\ isDragging
    THEN [View EXCEPT !.rotation = Rotate(rotation, delta)]
    ELSE View

TouchMove(f, hit, distance, delta) ==
    /\ page = "ar-graph"
    /\ currentMode # "null"
    /\ f \in touching
    /\ InRange(TouchMoveView(distance, delta).rotation)
    /\ moved' = IF moved > MoveThreshold THEN moved ELSE moved + 1
    /\ DispatchFrom(TouchMoveView(distance, delta), FALSE, NoNode, FALSE, <<>>,
                    TouchMoveThrows)
    /\ under' = [under EXCEPT ![f] = hit]
    /\ RecordGesture([gesture EXCEPT !.moved = moved'])
    /\ unchangedByEvent
    /\ UNCHANGED <<graphVisible, xrVars, isDragging, touching, sinceLastTap,
                   controlVars>>

\* setup3DControls' touchend listener: the single-tap hit test.
TouchEnd3DCalls(F) ==
    IF touching \ F = {} /\ Cardinality(F) = 1
    THEN SelectIfHit(under[CHOOSE f \in F : TRUE])
    ELSE <<>>

\* handleTouchEnd: line 388 throws a TypeError (renderer.domElement.userData is
\* undefined), so the listener ends before its hit test.
TouchEndARCalls(F) == <<>>

\* setupMobileEvents' touchend listener, registered after the mode's own.
\* tapLength < 500 && tapLength > 0 && e.touches.length === 0
IsDoubleTap(F) ==
    sinceLastTap < DoubleTapMs /\ sinceLastTap > 0 /\ touching \ F = {}

DoubleTapCalls(F) == IF IsDoubleTap(F) THEN <<ResetCall>> ELSE <<>>

\* Faulty variant: setupMobileEvents' listener runs before the mode's own.
TouchEndListenersMobileFirst(own, mobile) == mobile \o own

\* The touchend listeners of renderer.domElement run in the order they were
\* added: the mode's own (setup3DControls / setupARControls), then
\* setupMobileEvents'.
TouchEndListeners(own, mobile) == own \o mobile

\* The fingers of F lift: the mode's touchend listener, then setupMobileEvents'.
TouchEnd(F) ==
    /\ page = "ar-graph"
    /\ currentMode # "null"
    /\ F # {}
    /\ F \subseteq touching
    /\ LET own == IF currentMode = "3d" THEN TouchEnd3DCalls(F) ELSE TouchEndARCalls(F)
           calls == TouchEndListeners(own, DoubleTapCalls(F))
           hitTest == currentMode = "3d" /\ touching \ F = {} /\ Cardinality(F) = 1
       IN /\ Dispatch(hitTest,
                      IF hitTest THEN under[CHOOSE f \in F : TRUE] ELSE NoNode,
                      IsDoubleTap(F), calls, currentMode = "ar")
          /\ RecordGesture([gesture EXCEPT
                               !.phase = IF touching \ F = {} THEN "done" ELSE @,
                               !.selectCalled = @ \/ own # <<>>,
                               !.selectArg = IF own # <<>> THEN own[1].node ELSE @,
                               !.changed = @ \/ ChangesSelection(calls),
                               !.ends = IF @ < 2 THEN @ + 1 ELSE @,
                               !.endedTap = touching \ F = {} /\ gesture.maxTouches = 1,
                               !.prevEndedTap = gesture.endedTap,
                               !.reset = IsDoubleTap(F)])
    /\ touching' = touching \ F
    /\ moved' = IF touching \ F = {} THEN 0 ELSE moved
    /\ under' = [f \in Fingers |-> IF f \in F THEN NoNode ELSE under[f]]
    /\ isDragging' = IF currentMode = "3d" THEN FALSE ELSE isDragging
    /\ initialPinchDistance' = IF currentMode = "3d" THEN 0 ELSE initialPinchDistance
    /\ initialScale' = initialScale
    /\ sinceLastTap' = 0
    /\ unchangedByEvent
    /\ UNCHANGED <<graphVisible, xrVars>>

\* Time passes between two touchend events.
Tick ==
    /\ page = "ar-graph"
    /\ currentMode # "null"
    /\ sinceLastTap < DoubleTapMs
    /\ sinceLastTap' = CHOOSE g \in TapGaps :
                          /\ g > sinceLastTap
                          /\ \A h \in TapGaps : h > sinceLastTap => g <= h
    /\ UNCHANGED <<pageVars, domVars, sceneVars, selectedNode, xrVars,
                   isDragging, touching, under, moved, viewVars, controlVars,
                   fgVars, historyVars>>

unchangedBySession ==
    UNCHANGED <<pageVars, domVars, sceneVars, selectedNode, touchVars, viewVars,
                controlVars, fgVars, historyVars>>

\* The AR button starts an XR session.
SessionStart ==
    /\ page = "ar-graph"
    /\ currentMode = "ar"
    /\ session = NoSession
    /\ sessionCount < MaxSessions
    /\ session' = sessionCount + 1
    /\ sessionCount' = sessionCount + 1
    /\ UNCHANGED <<reticleVisible, hitTestSourceRequested, hitTestSource, pendingSource,
                   reticleMatrix, graphPosition, placements>>
    /\ unchangedBySession

\* The session ends.  Its 'end' listener was added by the frame that set
\* hitTestSourceRequested; nothing cancels the session's pending request.
SessionEnd ==
    /\ page = "ar-graph"
    /\ session # NoSession
    /\ session' = NoSession
    /\ IF hitTestSourceRequested
       THEN hitTestSourceRequested' = FALSE /\ hitTestSource' = NoSource
       ELSE UNCHANGED <<hitTestSourceRequested, hitTestSource>>
    /\ UNCHANGED <<reticleVisible, sessionCount, pendingSource, reticleMatrix,
                   graphPosition, placements>>
    /\ unchangedBySession

\* Faulty variant: a 'select' places the graph whenever the reticle is shown.
ARSelectPlacesWhileShown == reticleVisible

\* if (reticle.visible && !graphGroup.visible)
ARSelectPlaces == reticleVisible /\ ~graphVisible

\* function onARSelect: the XR controller's 'select'.
OnARSelect(hit) ==
    /\ page = "ar-graph"
    /\ currentMode = "ar"
    /\ session # NoSession
    /\ IF ARSelectPlaces
       THEN /\ graphPosition' = reticleMatrix
            /\ graphVisible' = TRUE
            /\ placements' = IF placements < MaxPlacements THEN placements + 1
                              ELSE placements
            /\ hit = NoNode
            /\ Dispatch(FALSE, NoNode, FALSE, <<>>, FALSE)
       ELSE IF graphVisible
       THEN /\ UNCHANGED <<graphVisible, graphPosition, placements>>
            /\ Dispatch(TRUE, hit, FALSE, SelectIfHit(hit), FALSE)
       ELSE /\ UNCHANGED <<graphVisible, graphPosition, placements>>
            /\ hit = NoNode
            /\ Dispatch(FALSE, NoNode, FALSE, <<>>, FALSE)
    /\ unchangedByEvent
    /\ UNCHANGED <<reticleVisible, hitTestSourceRequested, hitTestSource, session,
                   sessionCount, pendingSource, reticleMatrix, touchVars, controlVars,
                   gesture>>

\* Faulty variant: the reticle follows the hits after the graph is placed too.
ReticleShownOnAnyHit(hasResults) == hasResults

\* if (hitTestResults.length && !graphGroup.visible)
ReticleShown(hasResults) == hasResults /\ ~graphVisible

\* function renderAR, with an XR frame.
RenderAR(hasResults) ==
    /\ page = "ar-graph"
    /\ currentMode = "ar"
    /\ session # NoSession
    /\ hitTestSourceRequested' = TRUE
    /\ pendingSource' = IF hitTestSourceRequested THEN pendingSource
                        ELSE pendingSource \cup {session}
    /\ reticleVisible' = IF hitTestSource # NoSource THEN ReticleShown(hasResults)
                         ELSE reticleVisible
    /\ \E pose \in Poses :
          reticleMatrix' = IF hitTestSource # NoSource /\ ReticleShown(hasResults)
                           THEN pose ELSE reticleMatrix
    /\ UNCHANGED <<hitTestSource, session, sessionCount, graphPosition, placements>>
    /\ unchangedBySession

\* session.requestHitTestSource(...).then(source => { hitTestSource = source }),
\* for the request made in session s.
HitTestSourceResolved(s) ==
    /\ page = "ar-graph"
    /\ s \in pendingSource
    /\ hitTestSource' = s
    /\ pendingSource' = pendingSource \ {s}
    /\ UNCHANGED <<reticleVisible, hitTestSourceRequested, session, sessionCount,
                   reticleMatrix, graphPosition, placements>>
    /\ unchangedBySession

\* The request made in session s, which has ended, is rejected instead: no
\* handler is attached, nothing is written.
HitTestSourceRejected(s) ==
    /\ page = "ar-graph"
    /\ s \in pendingSource
    /\ s # session
    /\ pendingSource' = pendingSource \ {s}
    /\ UNCHANGED <<reticleVisible, hitTestSourceRequested, hitTestSource, session,
                   sessionCount, reticleMatrix, graphPosition, placements>>
    /\ unchangedBySession

\* window.resetView, from the controls shown once a mode has started.
ResetViewButton ==
    /\ page = "ar-graph"
    /\ currentMode # "null"
    /\ Dispatch(FALSE, NoNode, FALSE, <<ResetCall>>, FALSE)
    /\ unchangedByEvent
    /\ UNCHANGED <<graphVisible, xrVars, touchVars, controlVars, gesture>>

\* The mouse sequence, recorded in the behaviours that track it.
RecordMouse(g) == mouseGesture' = IF tracked = "mouse" THEN g ELSE mouseGesture

unchangedByMouse ==
    UNCHANGED <<pageVars, loadingScreen, nodeCount, linkCount, graphData, currentMode,
                edges, graphVisible, xrVars, touching, under, moved, sinceLastTap,
                controlVars, fgVars, gesture>>

\* setup3DControls: the mousedown listener.  The button was up.
MouseDown ==
    /\ page = "ar-graph"
    /\ currentMode = "3d"
    /\ ~isDragging
    /\ isDragging' = TRUE
    /\ Dispatch(FALSE, NoNode, FALSE, <<>>, FALSE)
    /\ RecordMouse([pressed |-> "down", moved |-> FALSE, rotated |-> FALSE,
                    selectCalled |-> FALSE])
    /\ unchangedByMouse

\* setup3DControls: the mousemove listener; the pointer moves by delta.
MouseMoveView(delta) ==
    IF isDragging THEN [View EXCEPT !.rotation = Rotate(rotation, delta)] ELSE View

MouseMove(delta) ==
    /\ page = "ar-graph"
    /\ currentMode = "3d"
    /\ InRange(MouseMoveView(delta).rotation)
    /\ DispatchFrom(MouseMoveView(delta), FALSE, NoNode, FALSE, <<>>, FALSE)
    /\ RecordMouse([mouseGesture EXCEPT
                       !.moved = @ \/ isDragging,
                       !.rotated = @ \/ MouseMoveView(delta).rotation # rotation])
    /\ UNCHANGED isDragging
    /\ unchangedByMouse

\* The button is released over the canvas it was pressed on: the mouseup
\* listener runs, then the browser dispatches click, whose listener hit-tests
\* the point of release.
MouseUp(hit) ==
    /\ page = "ar-graph"
    /\ currentMode = "3d"
    /\ isDragging
    /\ isDragging' = FALSE
    /\ Dispatch(TRUE, hit, FALSE, SelectIfHit(hit), FALSE)
    /\ RecordMouse([mouseGesture EXCEPT
                       !.pressed = "up",
                       !.selectCalled = SelectIfHit(hit) # <<>>])
    /\ unchangedByMouse

unchangedByZoom ==
    UNCHANGED <<pageVars, domVars, sceneVars, selectedNode, xrVars, touchVars,
                rotation, controlVars, fgVars, lastEvent, gesture, mouseGesture,
                flashVars>>

\* setup3DControls: the wheel listener.
Wheel(deltaY) ==
    /\ page = "ar-graph"
    /\ currentMode = "3d"
    /\ cameraZ' = WheelZ(cameraZ, deltaY)
    /\ RecordSelection(selectHistory, "wheel")
    /\ UNCHANGED graphScale
    /\ unchangedByZoom

\* window.zoomIn: the camera approaches (3D) or the placed graph grows (AR).
ZoomIn ==
    /\ page = "ar-graph"
    /\ currentMode # "null"
    /\ cameraZ' = IF currentMode = "3d" THEN ZoomInZ(cameraZ) ELSE cameraZ
    /\ graphScale' = IF currentMode = "ar" /\ graphVisible
                     THEN ZoomInScale(graphScale) ELSE graphScale
    /\ RecordSelection(selectHistory, "zoomIn")
    /\ unchangedByZoom

\* window.zoomOut
ZoomOut ==
    /\ page = "ar-graph"
    /\ currentMode # "null"
    /\ cameraZ' = IF currentMode = "3d" THEN ZoomOutZ(cameraZ) ELSE cameraZ
    /\ graphScale' = IF currentMode = "ar" /\ graphVisible
                     THEN ZoomOutScale(graphScale) ELSE graphScale
    /\ RecordSelection(selectHistory, "zoomOut")
    /\ unchangedByZoom


(***************************************************************************)
(* graph.js: the force-graph viewer                                        *)
(***************************************************************************)
unchangedByGraphJs ==
    UNCHANGED <<pageVars, sceneVars, selectedNode, xrVars, touchVars, viewVars,
                controlVars, gesture, mouseGesture, flashVars>>

unchangedByFgLoad ==
    UNCHANGED <<page, json, tracked, arSupport, arSupportMsg, previous, nodeInfo,
                lastError, sceneVars,
                selectedNode,
                xrVars, touchVars, viewVars, controlVars, historyVars>>

\* Largest number of loadGraphData calls followed on a page.
MaxLoads == 2

\* What a fetch of the data file can deliver: the file as it was when the page
\* loaded, or emptied since.
EmptyDocument == [entities |-> Some(<<>>), relationships |-> Some(<<>>)]

Responses == {json, EmptyDocument}

\* transformAndInitGraph: graphData = { nodes, links }
GraphDataFrom(data) ==
    [nodes |-> FgNodes(EntitiesOf(data)), links |-> FgLinks(data)]

\* function transformAndInitGraph(data), then initGraph()
TransformAndInitGraph(data) ==
    /\ fgGraphData' = GraphDataFrom(data)
    /\ nodeCount' = Len(EntitiesOf(data))
    /\ linkCount' = Len(FgLinks(data))
    /\ fgGraph' = TRUE
    /\ fgScale' = [i \in 1..Len(fgGraphData'.nodes) |-> BaselineScale]

\* loadGraphData, a call in flight: the fetch and response.json() succeed.
FgFetchResolve(data) ==
    /\ page = "graph"
    /\ loads.inFlight > 0
    /\ loadingScreen' = Hide(loadingScreen)
    /\ TransformAndInitGraph(data)
    /\ loads' = Resolved(loads, data, TRUE)
    /\ unchangedByFgLoad

\* loadGraphData, a call in flight: the catch branch.
FgFetchFail ==
    /\ page = "graph"
    /\ loads.inFlight > 0
    /\ loadingScreen' = ShowError(loadingScreen)
    /\ loads' = Failed(loads)
    /\ UNCHANGED <<nodeCount, linkCount, fgVars>>
    /\ unchangedByFgLoad

\* Faulty variant: a reload is dropped while a load is in flight.
ReloadStartsGuarded(inFlight) == IF inFlight > 0 THEN 0 ELSE 1

\* reloadData: await loadGraphData(), whatever is in flight
ReloadStarts(inFlight) == 1

\* function reloadData: shows the loading screen, empties the displayed graph
\* and calls loadGraphData.
ReloadData ==
    /\ page = "graph"
    /\ loads.started < MaxLoads
    /\ loadingScreen' = Show(loadingScreen)
    /\ fgScale' = IF fgGraph THEN <<>> ELSE fgScale
    /\ loads' = [loads EXCEPT !.inFlight = @ + ReloadStarts(loads.inFlight),
                              !.started = @ + ReloadStarts(loads.inFlight),
                              !.reloads = @ + 1,
                              !.overlapped = @ \/ loads.inFlight > 0]
    /\ UNCHANGED <<nodeCount, linkCount, fgGraph, fgGraphData>>
    /\ unchangedByFgLoad

\* Faulty variant: the other nodes are not reset.
HighlightNodeNoReset(scales, n) == [scales EXCEPT ![n] = HighlightScale]

\* function highlightNode(node)
HighlightNode(scales, n) ==
    [i \in 1..Len(scales) |-> IF i = n THEN HighlightScale ELSE BaselineScale]

\* function handleNodeClick(node), called by the library with the clicked node.
HandleNodeClick(n) ==
    /\ page = "graph"
    /\ fgGraph
    /\ n \in 1..Len(fgScale)
    /\ fgScale' = HighlightNode(fgScale, n)
    /\ nodeInfo' = DisplayNodeInfo(fgGraphData.nodes[n])
    /\ RecordSelection(<<n, selectHistory[1]>>, "select")
    /\ RecordEvent([hitTest |-> TRUE, hit |-> n, doubleTap |-> FALSE], FALSE)
    /\ UNCHANGED <<loadingScreen, nodeCount, linkCount, fgGraph, fgGraphData>>
    /\ unchangedByGraphJs

\* resetView: graphData.nodes.forEach(n => n.__threeObj.scale.set(1, 1, 1))
FgResetScales(scales) == [i \in 1..Len(scales) |-> BaselineScale]

\* function resetView (button, keys r, R and Escape).  Before initGraph has run
\* Graph is undefined and Graph.cameraPosition throws.
FgResetView ==
    /\ page = "graph"
    /\ IF fgGraph
       THEN /\ fgScale' = FgResetScales(fgScale)
            /\ nodeInfo' = Placeholder
            /\ RecordSelection(selectHistory, "reset")
            /\ RecordEvent(NoEvent, FALSE)
       ELSE /\ RecordEvent(NoEvent, TRUE)
            /\ UNCHANGED <<fgScale, nodeInfo, selectHistory, lastOp>>
    /\ UNCHANGED <<loadingScreen, nodeCount, linkCount, fgGraph, fgGraphData>>
    /\ unchangedByGraphJs

(***************************************************************************)
(* Specifications                                                          *)
(***************************************************************************)
InitWith(documents, history) ==
    /\ page \in {"ar-graph", "graph"}
    /\ json \in documents
    /\ tracked = history
    /\ arSupport \in ARSupports
    /\ arSupportMsg = IF page = "ar-graph" THEN SupportMsgAtLoad(arSupport) ELSE "checking"
    /\ loads = FirstLoad
    /\ previous = None
    /\ loadingScreen = "loading"
    /\ nodeInfo = Placeholder
    /\ nodeCount = 0
    /\ linkCount = 0
    /\ lastError = FALSE
    /\ graphData = None
    /\ currentMode = "null"
    /\ nodes = <<>>
    /\ edges = <<>>
    /\ selectedNode = NoNode
    /\ graphVisible = FALSE
    /\ reticleVisible = FALSE
    /\ hitTestSourceRequested = FALSE
    /\ hitTestSource = NoSource
    /\ session = NoSession
    /\ sessionCount = 0
    /\ pendingSource = {}
    /\ reticleMatrix = Origin
    /\ graphPosition = Origin
    /\ placements = 0
    /\ isDragging = FALSE
    /\ touching = {}
    /\ under = [f \in Fingers |-> NoNode]
    /\ moved = 0
    /\ sinceLastTap = DoubleTapMs
    /\ fgGraph = FALSE
    /\ fgGraphData = [nodes |-> <<>>, links |-> <<>>]
    /\ fgScale = <<>>
    /\ selectHistory = <<NoNode, NoNode>>
    /\ lastOp = "none"
    /\ lastEvent = NoEvent
    /\ gesture = NoGesture
    /\ mouseGesture = NoMouseGesture
    /\ nodeColor = <<>>
    /\ flashTimers = <<>>
    /\ cameraZ = 0
    /\ rotation = NoRotation
    /\ graphScale = UnitScale
    /\ initialPinchDistance = 0
    /\ initialScale = UnitScale

\* The positions createGraph gave the spheres.
Positions(spheres) == [i \in 1..Len(spheres) |-> spheres[i].position]

\* window.exitMode: location.reload().  The page starts over with the same
\* file; the mode left and its node positions are remembered.
ExitMode ==
    /\ page = "ar-graph"
    /\ currentMode # "null"
    /\ previous' = Some([mode |-> currentMode, positions |-> Positions(nodes)])
    /\ loads' = FirstLoad
    /\ loadingScreen' = "loading"
    /\ nodeInfo' = Placeholder
    /\ nodeCount' = 0
    /\ linkCount' = 0
    /\ lastError' = FALSE
    /\ graphData' = None
    /\ currentMode' = "null"
    /\ nodes' = <<>>
    /\ edges' = <<>>
    /\ selectedNode' = NoNode
    /\ graphVisible' = FALSE
    /\ reticleVisible' = FALSE
    /\ hitTestSourceRequested' = FALSE
    /\ hitTestSource' = NoSource
    /\ session' = NoSession
    /\ sessionCount' = 0
    /\ pendingSource' = {}
    /\ reticleMatrix' = Origin
    /\ graphPosition' = Origin
    /\ placements' = 0
    /\ isDragging' = FALSE
    /\ touching' = {}
    /\ under' = [f \in Fingers |-> NoNode]
    /\ moved' = 0
    /\ sinceLastTap' = DoubleTapMs
    /\ selectHistory' = <<NoNode, NoNode>>
    /\ lastOp' = "none"
    /\ lastEvent' = NoEvent
    /\ gesture' = NoGesture
    /\ mouseGesture' = NoMouseGesture
    /\ nodeColor' = <<>>
    /\ flashTimers' = <<>>
    /\ cameraZ' = 0
    /\ rotation' = NoRotation
    /\ graphScale' = UnitScale
    /\ initialPinchDistance' = 0
    /\ initialScale' = UnitScale
    /\ arSupportMsg' = SupportMsgAtLoad(arSupport)
    /\ UNCHANGED <<page, json, tracked, arSupport, fgVars>>

\* The pages as loaded, displaying ViewerDocument.
Init == InitWith({ViewerDocument}, "selection")

Load ==
    \/ FetchResolve
    \/ FetchFail
    \/ Start3DMode
    \/ StartARMode
    \/ FgFetchResolve(json)
    \/ FgFetchFail

Next ==
    \/ Load
    \/ \E hit \in Hits : Click(hit)
    \/ \E F \in SUBSET Fingers : \E u \in [F -> Hits] :
          \E distance \in PinchDistances : TouchStart(F, u, distance)
    \/ \E f \in Fingers : \E hit \in Hits :
          \E distance \in PinchDistances : \E delta \in DragDeltas :
             TouchMove(f, hit, distance, delta)
    \/ \E F \in SUBSET Fingers : TouchEnd(F)
    \/ Tick
    \/ SessionStart
    \/ \E hit \in Hits : OnARSelect(hit)
    \/ \E hasResults \in BOOLEAN : RenderAR(hasResults)
    \/ \E s \in Sessions : HitTestSourceResolved(s)
    \/ ResetViewButton
    \/ \E n \in 1..NumNodes : HandleNodeClick(n)
    \/ FgResetView

Spec == Init /\ [][Next]_vars

\* The same pages, recording the touch sequences instead of the selections.
InitTouch == InitWith({ViewerDocument}, "gesture")

SpecTouch == InitTouch /\ [][Next]_vars

\* The same pages, recording the last event and its outcome.
InitEvent == InitWith({ViewerDocument}, "event")

SpecEvent == InitEvent /\ [][Next]_vars

\* The adapters applied to every document of the bounded input set.
InitAdapter == InitWith(Documents(MaxEntities), "selection")

Adapt ==
    \/ FetchResolve
    \/ Start3DMode
    \/ StartARMode
    \/ FgFetchResolve(json)

SpecAdapter == InitAdapter /\ [][Adapt]_vars

\* The ar-graph page under the wheel and the zoom and reset controls.
Placement ==
    \/ SessionStart
    \/ \E hit \in {NoNode} : OnARSelect(hit)
    \/ \E hasResults \in BOOLEAN : RenderAR(hasResults)
    \/ \E s \in Sessions : HitTestSourceResolved(s)

NextCamera ==
    \/ Load
    \/ Placement
    \/ \E deltaY \in WheelDeltas : Wheel(deltaY)
    \/ ZoomIn
    \/ ZoomOut
    \/ ResetViewButton

\* The pages under loads that fail or deliver a changed file, and reloads.
NextReload ==
    \/ FetchResolve
    \/ FetchFail
    \/ Start3DMode
    \/ StartARMode
    \/ \E data \in Responses : FgFetchResolve(data)
    \/ FgFetchFail
    \/ ReloadData
    \/ \E n \in 1..NumNodes : HandleNodeClick(n)
    \/ FgResetView

SpecReload == Init /\ [][NextReload]_vars

SpecCamera == Init /\ [][NextCamera]_vars

\* The ar-graph page over XR sessions that start and end while hit-test source
\* requests are pending.
NextXR ==
    \/ Load
    \/ SessionStart
    \/ SessionEnd
    \/ \E hit \in Hits : OnARSelect(hit)
    \/ \E hasResults \in BOOLEAN : RenderAR(hasResults)
    \/ \E s \in Sessions : HitTestSourceResolved(s)
    \/ \E s \in Sessions : HitTestSourceRejected(s)

SpecXR == Init /\ [][NextXR]_vars

\* The ar-graph page in AR mode, from before the graph is placed: frames with
\* and without hits, the controller's 'select', touches, zoom and reset.
InitPlacement == InitWith({ViewerDocument}, "placement")

NextPlacement ==
    \/ FetchResolve
    \/ StartARMode
    \/ SessionStart
    \/ SessionEnd
    \/ \E hit \in Hits : OnARSelect(hit)
    \/ \E hasResults \in BOOLEAN : RenderAR(hasResults)
    \/ \E s \in Sessions : HitTestSourceResolved(s)
    \* taps of one finger
    \/ \E u \in [{1} -> Hits] : \E distance \in PinchDistances :
          TouchStart({1}, u, distance)
    \/ TouchEnd({1})
    \/ Tick
    \* one press of a zoom button away from the unit scale
    \/ graphScale = UnitScale /\ ZoomIn
    \/ graphScale = UnitScale /\ ZoomOut
    \/ ResetViewButton

SpecPlacement == InitPlacement /\ [][NextPlacement]_vars

\* The ar-graph page in browsers with and without AR: the support check, loads
\* that succeed or fail, the mode buttons pressed at any time, and the exit.
InitStart == InitWith({ViewerDocument}, "start")

NextStart ==
    \/ CheckARSupport
    \/ FetchResolve
    \/ FetchFail
    \/ Start3DMode
    \/ StartARMode
    \/ \E hit \in Hits : Click(hit)
    \/ ZoomIn
    \/ ZoomOut
    \/ ResetViewButton
    \/ ExitMode

SpecStart == InitStart /\ [][NextStart]_vars

\* The ar-graph page under taps: fingers that land and lift without moving, at
\* any pace, recording the touch sequences.
NextTap ==
    \/ FetchResolve
    \/ Start3DMode
    \/ StartARMode
    \/ Placement
    \/ \E F \in SUBSET Fingers : \E u \in [F -> Hits] :
          \E distance \in PinchDistances : TouchStart(F, u, distance)
    \/ \E F \in SUBSET Fingers : TouchEnd(F)
    \/ Tick

SpecTap == InitTouch /\ [][NextTap]_vars

\* The ar-graph page displaying FlashDocument, following the material colours:
\* selections by click, tap and controller, resets, and the flash timers.
InitFlash == InitWith({FlashDocument}, "flash")

NextFlash ==
    \/ FetchResolve
    \/ Start3DMode
    \/ StartARMode
    \/ SessionStart
    \/ \E hasResults \in BOOLEAN : RenderAR(hasResults)
    \/ \E s \in Sessions : HitTestSourceResolved(s)
    \/ \E hit \in Hits : Len(flashTimers) < MaxTimers /\ Click(hit)
    \/ \E hit \in Hits : Len(flashTimers) < MaxTimers /\ OnARSelect(hit)
    \/ ResetViewButton
    \/ FlashTimerFires

SpecFlash == InitFlash /\ [][NextFlash]_vars

\* A timer that is due fires: the browser runs it once its 300 ms have passed.
SpecFlashFair == InitFlash /\ [][NextFlash]_vars /\ WF_vars(FlashTimerFires)

\* The pages entered, left and entered again, displaying LayoutDocument with
\* whatever Math.random() returns.
InitLayout == InitWith({LayoutDocument}, "layout")

NextLayout ==
    \/ Load
    \/ ExitMode

SpecLayout == InitLayout /\ [][NextLayout]_vars

\* The ar-graph page under the mouse, recording each press-to-release sequence.
InitMouse == InitWith({ViewerDocument}, "mouse")

NextMouse ==
    \/ Load
    \/ MouseDown
    \/ \E delta \in DragDeltas : MouseMove(delta)
    \/ \E hit \in Hits : MouseUp(hit)
    \/ ResetViewButton

SpecMouse == InitMouse /\ [][NextMouse]_vars

\* The ar-graph page under pinches of varying finger distance, double taps and
\* the zoom and reset controls; the fingers land beside the nodes.
InitScale == InitWith({ViewerDocument}, "view")

NextScale ==
    \/ Load
    \/ Placement
    \/ \E F \in SUBSET Fingers : \E u \in [F -> {NoNode}] :
          \E distance \in PinchDistances : TouchStart(F, u, distance)
    \/ \E f \in Fingers : \E distance \in PinchDistances : \E delta \in DragDeltas :
          TouchMove(f, NoNode, distance, delta)
    \/ \E F \in SUBSET Fingers : TouchEnd(F)
    \/ Tick
    \/ currentMode = "ar" /\ ZoomIn
    \/ currentMode = "ar" /\ ZoomOut
    \/ ResetViewButton

SpecScale == InitScale /\ [][NextScale]_vars


(***************************************************************************)
(* Properties: selection (specification Spec)                              *)
(***************************************************************************)
Highlighted(i) ==
    nodes[i].emissiveIntensity = HighlightEmissive /\ nodes[i].scale = HighlightScale

AtBaseline(i) ==
    nodes[i].emissiveIntensity = BaselineEmissive /\ nodes[i].scale = BaselineScale

\* The nodes of either viewer that are not at their baseline visual.
NotAtBaseline ==
    IF page = "ar-graph"
    THEN {i \in 1..Len(nodes) : ~AtBaseline(i)}
    ELSE {i \in 1..Len(fgScale) : fgScale[i] # BaselineScale}

\* The nodes of either viewer in the highlighted visual state.
InHighlight ==
    IF page = "ar-graph"
    THEN {i \in 1..Len(nodes) : Highlighted(i)}
    ELSE {i \in 1..Len(fgScale) : fgScale[i] = HighlightScale}

\* C1: in every reachable state at most one node is highlighted, every other node
\* is at baseline, and in ar-graph.js the highlighted node is exactly selectedNode.
C1_AtMostOneHighlighted ==
    /\ Cardinality(InHighlight) <= 1
    /\ NotAtBaseline = InHighlight
    /\ page = "ar-graph" =>
          InHighlight = IF selectedNode = NoNode THEN {} ELSE {selectedNode}

\* A second, different node has been selected and is the one highlighted.
C1_Witness ==
    /\ page = "ar-graph"
    /\ selectedNode # NoNode
    /\ selectHistory[2] \notin {NoNode, selectedNode}
    /\ InHighlight = {selectedNode}

\* C2: after node A and then node B # A have been selected (any non-selecting
\* events in between, no reset since B), exactly B is highlighted and A is back
\* at its baseline visual.
C2_SecondSelectionReplacesFirst ==
    (/\ lastOp = "select"
     /\ selectHistory[2] # NoNode
     /\ selectHistory[1] # selectHistory[2])
    => /\ InHighlight = {selectHistory[1]}
       /\ selectHistory[2] \notin NotAtBaseline

\* In the force-graph viewer B was clicked after A.
C2_Witness ==
    /\ page = "graph"
    /\ lastOp = "select"
    /\ selectHistory[2] # NoNode
    /\ selectHistory[1] # selectHistory[2]
    /\ fgScale[selectHistory[1]] = HighlightScale

\* C3: after an explicit reset (resetView, by button or double tap) the system is
\* Idle: no node is highlighted, every node is at baseline, and in ar-graph.js
\* selectedNode is null.
C3_ResetReturnsToIdle ==
    lastOp = "reset" =>
        /\ InHighlight = {}
        /\ NotAtBaseline = {}
        /\ page = "ar-graph" => selectedNode = NoNode

\* The view has been reset after a node had been selected.
C3_Witness ==
    /\ page = "ar-graph"
    /\ lastOp = "reset"
    /\ selectHistory[1] # NoNode
    /\ selectedNode = NoNode

(***************************************************************************)
(* Properties: hit tests (specification SpecEvent)                         *)
(***************************************************************************)
\* The last event cast a ray that intersected no node.
HitTestMissed == lastEvent.hitTest /\ lastEvent.hit = NoNode

SelectionUnchanged ==
    /\ selectedNode' = selectedNode
    /\ nodes' = nodes
    /\ nodeInfo' = nodeInfo
    /\ fgScale' = fgScale

\* C10 as stated: an event whose hit test intersects no node leaves selectedNode,
\* every node's visual and the info panel as they were, and raises no error.
C10_MissChangesNothing ==
    [][HitTestMissed' => SelectionUnchanged /\ ~lastError']_vars

\* C10, amended: the same, unless the event is a touchend that completes a double
\* tap; then setupMobileEvents' listener resets the view and the system is Idle.
C10_MissChangesNothingUnlessDoubleTap ==
    [][HitTestMissed' =>
         /\ ~lastError'
         /\ IF lastEvent'.doubleTap
            THEN selectedNode' = NoNode /\ nodeInfo' = Placeholder
                 /\ \A i \in 1..Len(nodes) : AtBaseline(i)'
            ELSE SelectionUnchanged]_vars

\* A hit test on empty space, not part of a double tap, while a node is selected.
C10_Witness ==
    /\ HitTestMissed
    /\ ~lastEvent.doubleTap
    /\ selectedNode # NoNode

(***************************************************************************)
(* Properties: touch sequences (specification SpecTouch)                   *)
(***************************************************************************)
\* C8: a touch sequence with one contact point selects the node under the initial
\* contact point (if any) when its movement stays under the threshold, and
\* selects nothing and leaves the selection unchanged when it exceeds it.
C8_TapSelectsDragDoesNot ==
    (gesture.phase = "done" /\ gesture.maxTouches = 1) =>
        /\ (gesture.moved < MoveThreshold /\ gesture.initHit # NoNode) =>
              gesture.selectCalled /\ gesture.selectArg = gesture.initHit
        /\ gesture.moved > MoveThreshold =>
              ~gesture.selectCalled /\ ~gesture.changed

\* C9: a touch sequence in which two contact points were active at once invokes
\* no onNodeSelect and leaves the selection unchanged, up to the last finger lift.
C9_PinchNeverSelects ==
    gesture.maxTouches >= 2 => ~gesture.selectCalled /\ ~gesture.changed

\* C19: a touchend makes setupMobileEvents call resetView only if it and the
\* touchend before it each ended a touch sequence with one contact point; the
\* first touchend after page load never does.
C19_ResetOnlyOnDoubleTap ==
    gesture.reset =>
        /\ gesture.ends >= 2
        /\ gesture.endedTap
        /\ gesture.prevEndedTap

(***************************************************************************)
(* Properties: the view transform (specification SpecCamera)               *)
(***************************************************************************)
\* C11: in 3D mode camera.position.z starts at 30 and, whatever wheel events,
\* zoomIn, zoomOut and resetView calls follow, is never below 5 nor above 100.
C11_CameraDistanceInRange ==
    currentMode = "3d" =>
        /\ cameraZ >= MinCamera
        /\ cameraZ <= MaxCamera
        /\ lastOp = "none" => cameraZ = CameraStart

\* A wheel event has driven the camera to a limit and been held there.
C11_Witness ==
    /\ currentMode = "3d"
    /\ lastOp = "wheel"
    /\ cameraZ \in {MinCamera, MaxCamera}

(***************************************************************************)
(* Properties: the graph's scale (specification SpecScale)                 *)
(***************************************************************************)
\* C20: graphGroup.scale is never below 0.1 nor above 5, whatever pinches (of
\* any finger distances, a start distance of 0 included), AR zoomIn / zoomOut
\* calls and resets happen, and resetView sets it to exactly 1.
C20_ScaleInRange ==
    currentMode # "null" =>
        /\ graphScale >= MinScale
        /\ graphScale <= MaxScale
        /\ lastOp = "reset" => graphScale = UnitScale

\* A pinch has driven the scale to a limit and been held there.
C20_Witness ==
    /\ currentMode = "3d"
    /\ lastOp = "view"
    /\ graphScale \in {MinScale, MaxScale}

(***************************************************************************)
(* Properties: the mouse (specification SpecMouse)                         *)
(***************************************************************************)
\* C15: in 3D mode a press followed by movement is a drag, which orbits the
\* graph and does not select; only a release that no movement preceded since
\* the press hit-tests and selects.
C15_DragDoesNotSelect ==
    mouseGesture.pressed = "up" /\ mouseGesture.moved => ~mouseGesture.selectCalled

(***************************************************************************)
(* Properties: loading (specification SpecReload)                          *)
(***************************************************************************)
\* C13: when a load has failed, the loading screen is displayed and shows the
\* error message with its Retry action, and no graph is initialised from that
\* load (in ar-graph.js graphData stays null).
C13_FailureShowsError ==
    loads.lastFailed =>
        /\ loadingScreen = "error"
        /\ page = "ar-graph" => graphData = None

\* C14: reloadData is not guarded: every call starts a load, also while one is
\* in flight; every load that succeeds runs transformAndInitGraph and
\* initGraph, and graphData is that of the load that completed last.
C14_OverlappingLoadsBothInitialise ==
    page = "graph" =>
        /\ loads.started = 1 + loads.reloads
        /\ loads.inits <= loads.started - loads.inFlight
        /\ loads.inits > 0 =>
              /\ fgGraph
              /\ fgGraphData = GraphDataFrom(loads.last[1])
              /\ nodeCount = Len(fgGraphData.nodes)

\* Two loads overlapped and each initialised the graph; the one that completed
\* last delivered the emptied file.
C14_Witness ==
    /\ page = "graph"
    /\ loads.overlapped
    /\ loads.inFlight = 0
    /\ loads.inits = 2
    /\ loads.last = Some(EmptyDocument)
    /\ fgGraphData.nodes = <<>>

(***************************************************************************)
(* Properties: the layout (specification SpecLayout)                       *)
(***************************************************************************)
\* C16: the layout is deterministic: entity i of n is at angle 2 pi i / n and
\* radial distance base (1 + 0.3 floor(i / 6)), base 0.15 in AR and 15 in 3D,
\* and a second createGraph for the same entity list and mode gives every node
\* the position the first gave it.
C16_LayoutDeterministic ==
    /\ \A i \in 1..Len(nodes) :
          /\ nodes[i].position.turn = <<i - 1, Len(nodes)>>
          /\ nodes[i].position.r =
                (BaseRadius(currentMode) * (10 + 3 * ((i - 1) \div 6))) \div 10
    /\ (previous # None /\ currentMode = previous[1].mode) =>
          Positions(nodes) = previous[1].positions

(***************************************************************************)
(* Properties: XR sessions (specification SpecXR)                          *)
(***************************************************************************)
\* C18: once a session has ended, hitTestSourceRequested is false and
\* hitTestSource is null, and stays null until a request of a later session
\* resolves, however the end interleaves with the ended session's pending
\* request: the source held is never that of an ended session.
C18_NoSourceOfEndedSession ==
    /\ session = NoSession => hitTestSource = NoSource /\ ~hitTestSourceRequested
    /\ hitTestSource # NoSource => hitTestSource = session

(***************************************************************************)
(* Properties: the adapters (specification SpecAdapter)                    *)
(***************************************************************************)
\* transformAndInitGraph has run on a document without relationships.
Synthesized == page = "graph" /\ fgGraph /\ RelationshipsOf(json) = <<>>

\* The entity carries properties.document_id.
CarriesDocumentId(e) == e.properties # None /\ e.properties[1].document_id # None

LinksOfType(type) ==
    {k \in 1..Len(fgGraphData.links) : fgGraphData.links[k].type = type}

\* C4: without relationships there is exactly one 'contains' link per entity that
\* has properties.document_id, from that document_id to the entity's id, and none
\* for an entity without it.
C4_OneContainsLinkPerDocumentId ==
    Synthesized =>
        /\ \A i \in 1..Len(EntitiesOf(json)) :
              LET e == EntitiesOf(json)[i]
                  mine == {k \in LinksOfType("contains") :
                              fgGraphData.links[k].target = e.id}
              IN IF CarriesDocumentId(e)
                 THEN /\ Cardinality(mine) = 1
                      /\ \A k \in mine :
                            fgGraphData.links[k].source = e.properties[1].document_id[1]
                 ELSE mine = {}
        /\ \A k \in LinksOfType("contains") :
              \E i \in 1..Len(EntitiesOf(json)) :
                 fgGraphData.links[k].target = EntitiesOf(json)[i].id

\* A Document entity with a document_id beside an entity without one.
C4_Witness ==
    /\ Synthesized
    /\ \E i, j \in 1..Len(EntitiesOf(json)) :
          /\ CarriesDocumentId(EntitiesOf(json)[i])
          /\ EntitiesOf(json)[i].type = "Document"
          /\ ~CarriesDocumentId(EntitiesOf(json)[j])
    /\ LinksOfType("contains") # {}

\* The chunks (as entity indexes) of the group of document d.
ChunkGroup(d) ==
    {i \in 1..Len(EntitiesOf(json)) :
        /\ EntitiesOf(json)[i].type = "Chunk"
        /\ CarriesDocumentId(EntitiesOf(json)[i])
        /\ EntitiesOf(json)[i].properties[1].document_id[1] = d}

IndexOfChunk(i) ==
    IF EntitiesOf(json)[i].properties[1].chunk_index = None THEN 0
    ELSE EntitiesOf(json)[i].properties[1].chunk_index[1]

\* The 'next' links whose source is a chunk of the group.
NextLinksFrom(group) ==
    {k \in LinksOfType("next") :
        \E i \in group : fgGraphData.links[k].source = EntitiesOf(json)[i].id}

\* C5: the 'next' links of a group of chunks sharing a document_id form one path
\* that visits every chunk of the group once, in non-decreasing chunk_index order
\* (missing counted as 0), with count-1 links; no 'next' link leaves its group.
C5_NextLinksFormSortedPath ==
    Synthesized =>
        /\ \A d \in DocumentIds :
              LET group == ChunkGroup(d)
                  count == Cardinality(group)
              IN group # {} =>
                    /\ Cardinality(NextLinksFrom(group)) = count - 1
                    /\ \E path \in [1..count -> group] :
                          /\ \A a, b \in 1..count : a # b => path[a] # path[b]
                          /\ \A a \in 1..(count - 1) :
                                /\ IndexOfChunk(path[a]) <= IndexOfChunk(path[a + 1])
                                /\ \E k \in NextLinksFrom(group) :
                                      /\ fgGraphData.links[k].source
                                            = EntitiesOf(json)[path[a]].id
                                      /\ fgGraphData.links[k].target
                                            = EntitiesOf(json)[path[a + 1]].id
        /\ \A k \in LinksOfType("next") :
              \E d \in DocumentIds : \E i, j \in ChunkGroup(d) :
                 /\ fgGraphData.links[k].source = EntitiesOf(json)[i].id
                 /\ fgGraphData.links[k].target = EntitiesOf(json)[j].id

\* A group whose chunks are listed out of chunk_index order.
C5_Witness ==
    /\ Synthesized
    /\ \E d \in DocumentIds : \E i, j \in ChunkGroup(d) :
          i < j /\ IndexOfChunk(i) > IndexOfChunk(j)
    /\ LinksOfType("next") # {}

\* C6: for the example entities (d1; c1 and c2, chunks 0 and 1 of d1) the link
\* list is exactly [d1->c1 contains, d1->c2 contains, c1->c2 next]; in general the
\* 'contains' links come first, in entity order, and the 'next' links follow.
C6_ExampleLinkList ==
    Synthesized =>
        /\ EntitiesOf(json) = ExampleEntities =>
              fgGraphData.links =
                 << [source |-> "d1", target |-> "c1", type |-> "contains"],
                    [source |-> "d1", target |-> "c2", type |-> "contains"],
                    [source |-> "c1", target |-> "c2", type |-> "next"] >>
        /\ \A k, l \in 1..Len(fgGraphData.links) :
              (k < l /\ fgGraphData.links[l].type = "contains") =>
                 /\ fgGraphData.links[k].type = "contains"
                 /\ \E i, j \in 1..Len(EntitiesOf(json)) :
                       /\ i < j
                       /\ fgGraphData.links[k].target = EntitiesOf(json)[i].id
                       /\ fgGraphData.links[l].target = EntitiesOf(json)[j].id

\* The example document has been transformed.
C6_Witness ==
    /\ Synthesized
    /\ EntitiesOf(json) = ExampleEntities
    /\ Len(fgGraphData.links) = 3

\* C7: every retained link has both endpoints among the nodes, in the link list
\* transformAndInitGraph hands to the renderer and in the edges of createGraph.
C7_RetainedLinksResolve ==
    /\ (page = "graph" /\ fgGraph) =>
          \A k \in 1..Len(fgGraphData.links) :
             /\ \E i \in 1..Len(fgGraphData.nodes) :
                   fgGraphData.nodes[i].id = fgGraphData.links[k].source
             /\ \E i \in 1..Len(fgGraphData.nodes) :
                   fgGraphData.nodes[i].id = fgGraphData.links[k].target
    /\ (page = "ar-graph" /\ currentMode # "null") =>
          \A k \in 1..Len(edges) :
             /\ \E i \in 1..Len(nodes) : nodes[i].userData.id = edges[k].source
             /\ \E i \in 1..Len(nodes) : nodes[i].userData.id = edges[k].target

\* A link of createGraph resolves: both ends are ids of entities.
Resolves(rel) ==
    /\ InNodeMap(EntitiesOf(json), rel.source)
    /\ InNodeMap(EntitiesOf(json), rel.target)

\* C12: with a non-empty relationships array the link list is the relationships
\* in their order, same source and target, type defaulting to 'connects', and
\* nothing is synthesized; createGraph likewise takes the relationships as its
\* links (counted in link-count) and builds its edges from them alone.
C12_RelationshipsMappedInOrder ==
    LET rels == RelationshipsOf(json)
    IN rels # <<>> =>
          /\ (page = "graph" /\ fgGraph) =>
                /\ Len(fgGraphData.links) = Len(rels)
                /\ \A k \in 1..Len(rels) :
                      fgGraphData.links[k] =
                         [source |-> rels[k].source,
                          target |-> rels[k].target,
                          type |-> IF rels[k].type = None THEN "connects"
                                   ELSE rels[k].type[1]]
          /\ (page = "ar-graph" /\ currentMode # "null") =>
                /\ linkCount = Len(rels)
                /\ edges = SelectSeq([k \in 1..Len(rels) |->
                                         [source |-> rels[k].source,
                                          target |-> rels[k].target]],
                                     Resolves)

\* Two relationships, the first without a type, beside an entity with a document_id.
C12_Witness ==
    /\ page = "graph"
    /\ fgGraph
    /\ Len(RelationshipsOf(json)) = 2
    /\ RelationshipsOf(json)[1].type = None
    /\ \E i \in 1..Len(EntitiesOf(json)) : CarriesDocumentId(EntitiesOf(json)[i])
    /\ Len(fgGraphData.links) = 2

\* C17: a document without entities yields an empty graph in both viewers: no
\* nodes, no links, node-count and link-count 0; an absent relationships array
\* gives the links an empty one gives.
C17_EmptyEntityListEmptyGraph ==
    /\ (page = "graph" /\ fgGraph) =>
          /\ EntitiesOf(json) = <<>> =>
                /\ fgGraphData = [nodes |-> <<>>, links |-> <<>>]
                /\ nodeCount = 0
                /\ linkCount = 0
          /\ json.relationships = None =>
                fgGraphData.links = FgLinks([json EXCEPT !.relationships = Some(<<>>)])
    /\ (page = "ar-graph" /\ currentMode # "null") =>
          /\ EntitiesOf(json) = <<>> =>
                /\ nodes = <<>>
                /\ edges = <<>>
                /\ nodeCount = 0
                /\ linkCount = 0
          /\ json.relationships = None =>
                edges = CreateEdges([json EXCEPT !.relationships = Some(<<>>)])

\* C29: after createGraph the displayed node-count is the number of node meshes
\* created, and the edges drawn are never more than the displayed link-count,
\* as many exactly when every link's source and target resolve to a node.
C29_CountsAgreeWithMeshes ==
    (page = "ar-graph" /\ currentMode # "null") =>
        /\ nodeCount = Len(nodes)
        /\ Len(edges) <= linkCount
        /\ Len(edges) = linkCount <=>
              \A k \in 1..Len(CreateLinks(json)) : Resolves(CreateLinks(json)[k])

\* A graph was created from links of which one does not resolve.
C29_Witness ==
    /\ page = "ar-graph"
    /\ currentMode # "null"
    /\ Len(nodes) > 0
    /\ Len(edges) > 0
    /\ Len(edges) < linkCount

(***************************************************************************)
(* Properties: selection, continued (specification Spec)                   *)
(***************************************************************************)
\* C28: selecting the node that is already selected is idempotent: the node
\* stays selected and highlighted, every other node at baseline, and the info
\* panel shows it, the same state as after the first selection.
C28_ReselectIsIdempotent ==
    page = "ar-graph" =>
        /\ selectedNode # NoNode => OnNodeSelect(View, selectedNode) = View
        /\ (lastOp = "select" /\ selectHistory[1] = selectHistory[2]) =>
              /\ selectedNode = selectHistory[1]
              /\ Highlighted(selectedNode)
              /\ \A i \in 1..Len(nodes) : i # selectedNode => AtBaseline(i)
              /\ nodeInfo = DisplayNodeInfo(nodes[selectedNode].userData)

\* The selected node has been selected again.
C28_Witness ==
    /\ page = "ar-graph"
    /\ lastOp = "select"
    /\ selectHistory[1] # NoNode
    /\ selectHistory[1] = selectHistory[2]
    /\ selectedNode = selectHistory[1]

(***************************************************************************)
(* Properties: AR placement (specification Spec)                           *)
(***************************************************************************)
\* C21: in AR mode the graph is placed at most once: a 'select' places it (position
\* from the reticle, visible) only when the reticle is shown and the graph is not;
\* once visible it stays visible, and no later step changes its position.
C21_PlacedAtMostOnce ==
    [][(page = "ar-graph" /\ currentMode = "ar" /\ currentMode' = "ar") =>
          /\ placements' <= 1
          /\ graphVisible => (graphVisible' /\ graphPosition' = graphPosition)
          /\ (graphVisible' # graphVisible \/ graphPosition' # graphPosition) =>
                /\ reticleVisible /\ ~graphVisible
                /\ graphVisible' /\ graphPosition' = reticleMatrix
                /\ \E hit \in Hits : OnARSelect(hit)]_vars

\* The graph was placed away from the origin, then zoomed and a node selected.
C21_Witness ==
    /\ page = "ar-graph" /\ currentMode = "ar"
    /\ graphVisible /\ placements = 1
    /\ graphPosition # Origin
    /\ graphScale # UnitScale
    /\ selectedNode # NoNode

\* C22: after a renderAR frame processed while a hit-test source is held, a shown
\* reticle implies that the graph is not visible and that the frame had a hit;
\* with the graph placed such a frame hides the reticle, and a hidden reticle is
\* never shown again.
C22_ReticleOnlyBeforeAnchor ==
    [][(page = "ar-graph" /\ currentMode = "ar") =>
          /\ \A hasResults \in BOOLEAN :
                (hitTestSource # NoSource /\ RenderAR(hasResults)) =>
                   (reticleVisible' => (~graphVisible' /\ hasResults))
          /\ (graphVisible /\ ~reticleVisible) => ~reticleVisible']_vars

\* With the graph placed on a hit, a frame with a source held has hidden the reticle.
C22_Witness ==
    /\ page = "ar-graph" /\ currentMode = "ar"
    /\ graphVisible /\ graphPosition # Origin
    /\ hitTestSource # NoSource
    /\ ~reticleVisible

\* C23: in AR mode no node is selected before the graph is placed: a selected
\* node implies graphGroup.visible.
C23_SelectedOnlyAfterPlacement ==
    (page = "ar-graph" /\ currentMode = "ar" /\ selectedNode # NoNode) => graphVisible

\* In AR mode a node of the placed graph is selected.
C23_Witness ==
    /\ page = "ar-graph" /\ currentMode = "ar"
    /\ graphVisible
    /\ placements = 1
    /\ selectedNode # NoNode

(***************************************************************************)
(* Properties: starting a mode (specification SpecStart)                   *)
(***************************************************************************)
\* start3DMode with the data loaded, taking effect.
Start3DModeStarts == Start3DMode /\ currentMode' = "3d"

\* C24: startARMode and start3DMode called while graphData is null change no
\* state, so a started mode implies loaded data; and with the data loaded
\* start3DMode succeeds whatever the browser's AR support is.
C24_ModeNeedsData ==
    page = "ar-graph" =>
        /\ currentMode # "null" => graphData # None
        /\ graphData = None =>
              (currentMode = "null" /\ nodes = <<>> /\ edges = <<>> /\ ~graphVisible)
        /\ (graphData # None /\ currentMode = "null") => ENABLED Start3DModeStarts

\* 3D mode was started in a browser without AR, after the support check.
C24_Witness ==
    /\ page = "ar-graph"
    /\ arSupport = "unsupported" /\ arSupportMsg = "ar-not-supported"
    /\ currentMode = "3d" /\ graphData # None /\ Len(nodes) > 0

(***************************************************************************)
(* Properties: the info panel (specification Spec)                         *)
(***************************************************************************)
\* C26: the info panel agrees with the selection: while a node is selected, the
\* most recently selected one, the panel shows the details of its entity data;
\* with no node selected, as after resetView, it shows the placeholder.
C26_PanelAgreesWithSelection ==
    page = "ar-graph" =>
        /\ selectedNode # NoNode =>
              /\ selectedNode = selectHistory[1]
              /\ nodeInfo = <<"details", nodes[selectedNode].userData>>
        /\ selectedNode = NoNode => nodeInfo = <<"placeholder">>
        /\ lastOp = "reset" => selectedNode = NoNode

\* A node is selected after another one had been, and the panel shows it.
C26_Witness ==
    /\ page = "ar-graph"
    /\ selectedNode # NoNode
    /\ selectHistory[2] # NoNode
    /\ selectHistory[2] # selectedNode
    /\ nodeInfo = <<"details", nodes[selectedNode].userData>>

TypeColor(i) ==
    LET type == nodes[i].userData.type
    IN IF type = "Document" THEN 16739179
       ELSE IF type = "Chunk" THEN 5164484
       ELSE 4569041

\* C25: the white selection flash always ends: the timer of every onNodeSelect(n),
\* when it fires, leaves n in the colour of its type (the default colour for an
\* unknown type); a white node gets its type colour back; and with no flash
\* timer pending every node has its type colour, however selections and resets
\* interleave with the pending timers.
C25_FlashEnds ==
    /\ [](flashTimers = <<>> =>
            \A i \in 1..Len(nodeColor) : nodeColor[i] = TypeColor(i))
    /\ [][(flashTimers # <<>> /\ FlashTimerFires) =>
            nodeColor'[Head(flashTimers).node] = TypeColor(Head(flashTimers).node)]_vars
    /\ \A i \in 1..Len(FlashDocument.entities[1]) :
          (Len(nodeColor) >= i /\ nodeColor[i] = White)
             ~> (Len(nodeColor) >= i /\ nodeColor[i] = TypeColor(i))

\* The node of unknown type was selected twice within 300 ms and the view reset:
\* the first timer has restored the default colour, the second is pending.
C25_Witness ==
    /\ page = "ar-graph" /\ currentMode = "3d"
    /\ Len(nodes) = Len(FlashDocument.entities[1])
    /\ nodes[Len(nodes)].userData.type = "Person"
    /\ selectedNode = NoNode
    /\ flashTimers = <<[node |-> Len(nodes), color |-> 4569041]>>
    /\ nodeColor[Len(nodes)] = 4569041

====
